---- MODULE Spec2Model ----
(***************************************************************************)
(* A model of Heimer's editor scene (src/src/view/editor_scene.cpp) and of *)
(* the application's state handlers (src/src/application/application.cpp). *)
(*                                                                         *)
(* The scene is a sequence of item objects (items()), a scene rectangle    *)
(* and the item objects themselves, which live outside the scene ("managed *)
(* elsewhere").  Every public method of EditorScene is an action (or, for  *)
(* the loop of adjustSceneRect and the phases of toSvg, a few actions      *)
(* under a program counter).  Rectangles are integer rectangles; the 25%   *)
(* margin of containsAll is computed exactly, in quarter units.            *)
(***************************************************************************)
EXTENDS Integers, Sequences, FiniteSets, TLC

(***************************************************************************)
(* Bounds of the model.                                                    *)
(***************************************************************************)
MaxItems == 2
MaxCoord == 3
MaxNodeIndex == 1
MaxDim == 2
MaxNameLen == 2
MaxNodes == 2
MaxOps == 4

(***************************************************************************)
(* m_initialSize: half the side of the initial scene rectangle and the     *)
(* growth increment of adjustSceneRect, in model units.                    *)
(***************************************************************************)
InitialSize == 2

VARIABLES
    sceneAlive,   \* the EditorScene object exists
    sceneItems,   \* items(): the ids of the items in the scene, in order
    heap,         \* the item objects: id -> item, NoItem where none exists
    sceneRect,    \* sceneRect()
    pc,           \* position inside adjustSceneRect / toSvg, "idle" otherwise
    painterActive,\* toSvg: what painter.begin(&generator) returned
    svgOut,       \* toSvg: how each item was rendered into the file
    ret,          \* the last completed call: [op, args, val]
    adjFrom,      \* adjustSceneRect: sceneRect() when the call was entered
    adjSteps,     \* adjustSceneRect: growth steps taken by the call so far
    mainWindow,   \* MainWindow: undo, redo, save and save-as enabled, spinner shown
    settings,     \* Settings::Custom: the stored recent path and recent image path
    selection,    \* the service's node and edge selection groups
    trace,        \* the calls and emits of the state handler that ran last
    editorData,   \* the document: the graph, the undo stack and the redo stack
    history,      \* the operations on the document: how many, the last one, and
                  \* how far a change has been undone and redone
    app           \* the Application object: how far its constructor has come,
                  \* m_mindMapFile, the pending single-shot timers, and the
                  \* autoload setting and recent file it reads at start-up

sceneVars == <<sceneAlive, sceneItems, heap, sceneRect, pc, painterActive,
               svgOut, ret, adjFrom, adjSteps>>

editVars == <<editorData, history>>

appVars == <<mainWindow, settings, selection, trace, editVars, app>>

vars == <<sceneVars, appVars>>

ItemIds == 1..MaxItems
NodeIndices == 0..MaxNodeIndex

(***************************************************************************)
(* Rectangles (QRectF): x, y, width, height.                               *)
(***************************************************************************)
Rect(x, y, w, h) == [x |-> x, y |-> y, w |-> w, h |-> h]

NullRect == Rect(0, 0, 0, 0)

\* QRectF::adjusted(dx1, dy1, dx2, dy2)
Adjusted(r, dx1, dy1, dx2, dy2) ==
    Rect(r.x + dx1, r.y + dy1, r.w + dx2 - dx1, r.h + dy2 - dy1)

\* a rectangle in quarter units
Scale4(r) == Rect(4 * r.x, 4 * r.y, 4 * r.w, 4 * r.h)

\* QRectF::contains(const QRectF &): false for a null rectangle on either
\* side, edges included otherwise; negative widths and heights normalised.
Contains(r1, r2) ==
    LET l1 == IF r1.w < 0 THEN r1.x + r1.w ELSE r1.x
        rr1 == IF r1.w < 0 THEN r1.x ELSE r1.x + r1.w
        l2 == IF r2.w < 0 THEN r2.x + r2.w ELSE r2.x
        rr2 == IF r2.w < 0 THEN r2.x ELSE r2.x + r2.w
        t1 == IF r1.h < 0 THEN r1.y + r1.h ELSE r1.y
        b1 == IF r1.h < 0 THEN r1.y ELSE r1.y + r1.h
        t2 == IF r2.h < 0 THEN r2.y + r2.h ELSE r2.y
        b2 == IF r2.h < 0 THEN r2.y ELSE r2.y + r2.h
    IN  /\ l1 # rr1
        /\ l2 # rr2
        /\ ~(l2 < l1 \/ rr2 > rr1)
        /\ t1 # b1
        /\ t2 # b2
        /\ ~(t2 < t1 \/ b2 > b1)

(***************************************************************************)
(* Item objects.  A node has an index and a scene bounding rectangle, an   *)
(* edge a source and a target node index; every item has a graphics effect *)
(* ("none" when graphicsEffect() is null) that is enabled or disabled.     *)
(***************************************************************************)
NodeItem(index, rect, effect) ==
    [kind |-> "node", index |-> index, source |-> -1, target |-> -1,
     rect |-> rect, effect |-> effect]

EdgeItem(source, target, effect) ==
    [kind |-> "edge", index |-> -1, source |-> source, target |-> target,
     rect |-> NullRect, effect |-> effect]

NoItem ==
    [kind |-> "absent", index |-> -1, source |-> -1, target |-> -1,
     rect |-> NullRect, effect |-> "none"]

Void == "void"

NoCall == [op |-> "none", args |-> <<>>, val |-> Void]

Range(s) == {s[i] : i \in 1..Len(s)}

\* the item objects that exist
Existing == {id \in ItemIds : heap[id] # NoItem}

\* the item objects that exist and are in no scene
Detached == Existing \ Range(sceneItems)

(***************************************************************************)
(* EditorScene::EditorScene                                                *)
(***************************************************************************)
InitialSceneRect == Rect(-InitialSize, -InitialSize, InitialSize * 2, InitialSize * 2)

sceneConstructed ==
    /\ sceneAlive = TRUE
    /\ sceneItems = <<>>
    /\ heap = [id \in ItemIds |-> NoItem]
    /\ sceneRect = InitialSceneRect
    /\ pc = "idle"
    /\ painterActive = FALSE
    /\ svgOut = <<>>
    /\ ret = NoCall
    /\ adjFrom = InitialSceneRect
    /\ adjSteps = 0

(***************************************************************************)
(* The application beside a scene that is exercised on its own: a fresh    *)
(* main window, nothing stored, nothing selected, no handler run.          *)
(***************************************************************************)
NoSelectionGroup == [items |-> {}, implicit |-> FALSE]

\* a new mind map: no node, no edge, nothing to undo or redo
EmptyGraph == [nodes |-> {}, edges |-> {}, count |-> 0]

Args(a, b, pos, str) == [a |-> a, b |-> b, pos |-> pos, str |-> str]

NoArgs == Args(-1, -1, <<0, 0>>, "")

\* no operation on the document yet
NoHistory ==
    [count |-> 0, op |-> "load", args |-> NoArgs,
     stage |-> "none", by |-> "none", bySave |-> FALSE,
     pre |-> EmptyGraph, post |-> EmptyGraph]

editorAtRest ==
    /\ editorData = [graph |-> EmptyGraph, undoStack |-> <<>>, redoStack |-> <<>>]
    /\ history = NoHistory

\* std::optional<QString> without a value
NoRecentFile == [has_value |-> FALSE, value |-> <<>>]

\* the Application after its constructor, inside run(), with no timer pending
applicationRunning ==
    app = [pc |-> "running", positional |-> <<>>, mindMapFile |-> <<>>,
           autoload |-> FALSE, recentFile |-> NoRecentFile, timers |-> <<>>,
           connected |-> TRUE, shown |-> TRUE, opens |-> 0]

applicationAtRest ==
    /\ editorAtRest
    /\ applicationRunning
    /\ mainWindow = [undo |-> FALSE, redo |-> FALSE, save |-> FALSE, saveAs |-> FALSE,
                     spinner |-> FALSE]
    /\ settings = [recentPath |-> <<>>, recentImagePath |-> <<>>]
    /\ selection = [node |-> NoSelectionGroup, edge |-> NoSelectionGroup]
    /\ trace = <<>>

InitScene == sceneConstructed /\ applicationAtRest

(***************************************************************************)
(* addItem / removeItem (Mediator::addItem, Mediator::removeItem, on the   *)
(* QGraphicsScene the EditorScene is): the owner of an item object adds it *)
(* to the scene or takes it out again.  The object itself is untouched.    *)
(***************************************************************************)
Idle == sceneAlive /\ pc = "idle"

AddNewItem(item) ==
    /\ Idle
    /\ Existing # ItemIds
    /\ LET id == CHOOSE i \in ItemIds \ Existing :
                    \A j \in ItemIds \ Existing : i <= j
       IN  /\ heap' = [heap EXCEPT ![id] = item]
           /\ sceneItems' = Append(sceneItems, id)
           /\ ret' = [op |-> "addItem", args |-> <<id>>, val |-> Void]
    /\ UNCHANGED <<sceneAlive, sceneRect, pc, painterActive, svgOut, adjFrom, adjSteps,
                   appVars>>

AddDetachedItem(id) ==
    /\ Idle
    /\ id \in Detached
    /\ sceneItems' = Append(sceneItems, id)
    /\ ret' = [op |-> "addItem", args |-> <<id>>, val |-> Void]
    /\ UNCHANGED <<sceneAlive, heap, sceneRect, pc, painterActive, svgOut, adjFrom, adjSteps,
                   appVars>>

\* QGraphicsScene::removeItem: the item leaves items(), the object stays
WithoutItem(items, id) == SelectSeq(items, LAMBDA i : i # id)

RemoveItem(id) ==
    /\ Idle
    /\ id \in Range(sceneItems)
    /\ sceneItems' = WithoutItem(sceneItems, id)
    /\ ret' = [op |-> "removeItem", args |-> <<id>>, val |-> Void]
    /\ UNCHANGED <<sceneAlive, heap, sceneRect, pc, painterActive, svgOut, adjFrom, adjSteps,
                   appVars>>

(***************************************************************************)
(* EditorScene::containsAll: the test rectangle is the scene rectangle     *)
(* with a margin of 25% of its width taken off the left and the right and  *)
(* 25% of its height off the top and the bottom; the items are walked in   *)
(* order and the first node item not inside it ends the walk with false.   *)
(* Rectangles are compared in quarter units, where width * .25 is exact.   *)
(***************************************************************************)
testRect4(r) ==
    LET testMarginX4 == r.w
        testMarginY4 == r.h
    IN  Adjusted(Scale4(r), testMarginX4, testMarginY4, -testMarginX4, -testMarginY4)

\* a variant that tests the first item only and ends the walk there
containsAllFrom_firstOnly(items, objs, r, i) ==
    IF i > Len(items) THEN TRUE
    ELSE ~(objs[items[i]].kind = "node"
           /\ ~Contains(testRect4(r), Scale4(objs[items[i]].rect)))

RECURSIVE containsAllFrom(_, _, _, _)
containsAllFrom(items, objs, r, i) ==
    IF i > Len(items) THEN TRUE
    ELSE IF objs[items[i]].kind = "node"
            /\ ~Contains(testRect4(r), Scale4(objs[items[i]].rect))
         THEN FALSE
         ELSE containsAllFrom(items, objs, r, i + 1)

containsAll == containsAllFrom(sceneItems, heap, sceneRect, 1)

(***************************************************************************)
(* EditorScene::adjustSceneRect: while (!containsAll()) grow the scene     *)
(* rectangle by m_initialSize on every side.  One action per loop          *)
(* iteration, one for the exit of the loop.                                *)
(***************************************************************************)
\* a variant that grows by the initial side, 2 * m_initialSize, on every side
grownRect_double(r) ==
    Adjusted(r, -InitialSize * 2, -InitialSize * 2, InitialSize * 2, InitialSize * 2)

grownRect(r) == Adjusted(r, -InitialSize, -InitialSize, InitialSize, InitialSize)

adjustSceneRect_enter ==
    /\ Idle
    /\ pc' = "adjust"
    /\ adjFrom' = sceneRect
    /\ adjSteps' = 0
    /\ UNCHANGED <<sceneAlive, sceneItems, heap, sceneRect, painterActive, svgOut, ret,
                   appVars>>

adjustSceneRect_grow ==
    /\ pc = "adjust"
    /\ ~containsAll
    /\ sceneRect' = grownRect(sceneRect)
    /\ adjSteps' = adjSteps + 1
    /\ UNCHANGED <<sceneAlive, sceneItems, heap, pc, painterActive, svgOut, ret, adjFrom,
                   appVars>>

adjustSceneRect_return ==
    /\ pc = "adjust"
    /\ containsAll
    /\ pc' = "idle"
    /\ ret' = [op |-> "adjustSceneRect", args |-> <<>>, val |-> Void]
    /\ UNCHANGED <<sceneAlive, sceneItems, heap, sceneRect, painterActive, svgOut, adjFrom, adjSteps,
                   appVars>>

(***************************************************************************)
(* The scene rectangle specification: node items of unit size are added    *)
(* at and around the origin, out to MaxCoord, and taken out again, and the *)
(* scene rectangle is adjusted.  The loop of adjustSceneRect runs on the   *)
(* one thread of the program, which keeps running: weak fairness.          *)
(***************************************************************************)
RectOrigins == {<<0, 0>>, <<1, 0>>, <<0, 1>>, <<-MaxCoord, 0>>, <<0, MaxCoord - 1>>}

RectItems ==
    {NodeItem(0, Rect(o[1], o[2], 1, 1), "none") : o \in RectOrigins}
        \cup {EdgeItem(0, 0, "none")}

NextRect ==
    \/ \E item \in RectItems : AddNewItem(item)
    \/ \E id \in ItemIds : RemoveItem(id)
    \/ adjustSceneRect_enter
    \/ adjustSceneRect_grow
    \/ adjustSceneRect_return

SpecRect ==
    /\ InitScene
    /\ [][NextRect]_vars
    /\ WF_vars(adjustSceneRect_grow)
    /\ WF_vars(adjustSceneRect_return)

(***************************************************************************)
(* Claims about adjustSceneRect.                                           *)
(***************************************************************************)
\* the node items in the scene
NodeItemsInScene == {id \in Range(sceneItems) : heap[id].kind = "node"}

\* rectangle n lies in rectangle r inset by a quarter of r's width on the
\* left and the right and a quarter of its height on the top and the bottom
InsideInset(n, r) ==
    /\ 4 * n.x >= 4 * r.x + r.w
    /\ 4 * (n.x + n.w) <= 4 * (r.x + r.w) - r.w
    /\ 4 * n.y >= 4 * r.y + r.h
    /\ 4 * (n.y + n.h) <= 4 * (r.y + r.h) - r.h

AllInsideInset(r) == \A id \in NodeItemsInScene : InsideInset(heap[id].rect, r)

AdjustReturned == pc = "idle" /\ ret.op = "adjustSceneRect"

\* rectangle r with every side moved outward j times by m_initialSize
GrownTimes(r, j) ==
    Rect(r.x - j * InitialSize, r.y - j * InitialSize,
         r.w + 2 * j * InitialSize, r.h + 2 * j * InitialSize)

\* C1: adjustSceneRect() takes finitely many growth steps (no more than it
\* takes for the inset rectangle to reach MaxCoord) and returns, and on
\* return every node item's bounding rectangle lies in the scene rectangle
\* inset by 25% of its width left and right and 25% of its height top and
\* bottom.
C1_AdjustTerminatesInside ==
    /\ [](AdjustReturned => AllInsideInset(sceneRect))
    /\ [](adjSteps * InitialSize <= 2 * MaxCoord)
    /\ (pc = "adjust") ~> (pc = "idle")

C1_Witness ==
    /\ AdjustReturned
    /\ adjSteps >= 2
    /\ Cardinality(NodeItemsInScene) >= 2

\* C2: every growth step moves each side of the scene rectangle outward by
\* m_initialSize (width and height grow by 2 * m_initialSize, the centre
\* stays), the scene rectangle changes in no other way and only while some
\* node item is outside the inset rectangle; on return the scene rectangle
\* is the first of the sequence adjFrom, grown once, grown twice, ... for
\* which containment holds, which is adjFrom itself when it holds there.
C2_GrowthSteps ==
    /\ [][sceneRect' # sceneRect =>
            /\ pc = "adjust"
            /\ ~AllInsideInset(sceneRect)
            /\ sceneRect'.x = sceneRect.x - InitialSize
            /\ sceneRect'.y = sceneRect.y - InitialSize
            /\ sceneRect'.x + sceneRect'.w = sceneRect.x + sceneRect.w + InitialSize
            /\ sceneRect'.y + sceneRect'.h = sceneRect.y + sceneRect.h + InitialSize
            /\ sceneRect'.w = sceneRect.w + 2 * InitialSize
            /\ sceneRect'.h = sceneRect.h + 2 * InitialSize
            /\ 2 * sceneRect'.x + sceneRect'.w = 2 * sceneRect.x + sceneRect.w
            /\ 2 * sceneRect'.y + sceneRect'.h = 2 * sceneRect.y + sceneRect.h]_vars
    /\ [](AdjustReturned =>
            /\ sceneRect = GrownTimes(adjFrom, adjSteps)
            /\ AllInsideInset(sceneRect)
            /\ \A j \in 0..(adjSteps - 1) : ~AllInsideInset(GrownTimes(adjFrom, j))
            /\ (AllInsideInset(adjFrom) => sceneRect = adjFrom))

C2_Witness ==
    /\ AdjustReturned
    /\ adjFrom # InitialSceneRect
    /\ adjSteps >= 1

(***************************************************************************)
(* EditorScene::enableGraphicsEffects: every item of items() that has a    *)
(* graphics effect gets it enabled or disabled.                            *)
(***************************************************************************)
setEnabled(item, enable) ==
    [item EXCEPT !.effect = IF enable THEN "enabled" ELSE "disabled"]

RECURSIVE enableGraphicsEffectsFrom(_, _, _, _)
enableGraphicsEffectsFrom(items, objs, enable, i) ==
    IF i > Len(items) THEN objs
    ELSE IF objs[items[i]].effect # "none"
         THEN enableGraphicsEffectsFrom(
                  items, [objs EXCEPT ![items[i]] = setEnabled(objs[items[i]], enable)],
                  enable, i + 1)
         ELSE enableGraphicsEffectsFrom(items, objs, enable, i + 1)

enableGraphicsEffects(enable) == enableGraphicsEffectsFrom(sceneItems, heap, enable, 1)

(***************************************************************************)
(* EditorScene::toSvg.  Three phases: the effects are disabled and the     *)
(* generator is set up; the painter is begun on the generator, which fails *)
(* when the file cannot be written, the scene is rendered (an item whose   *)
(* effect is enabled comes out as a bitmap, any other as vector paths) and *)
(* the painter is ended; the effects are enabled and the call returns.     *)
(* The method is void: it returns the same nothing on every path.          *)
(***************************************************************************)
renderedAs(item) == IF item.effect = "enabled" THEN "bitmap" ELSE "vector"

toSvg_result(active) == Void

\* the call is entered: the item objects as it found them are kept with it
toSvg_disable ==
    /\ Idle
    /\ heap' = enableGraphicsEffects(FALSE)
    /\ pc' = "svgBegin"
    /\ painterActive' = FALSE
    /\ svgOut' = <<>>
    /\ ret' = [op |-> "toSvg entered", args |-> <<heap>>, val |-> Void]
    /\ UNCHANGED <<sceneAlive, sceneItems, sceneRect, adjFrom, adjSteps,
                   appVars>>

toSvg_render(writable) ==
    /\ pc = "svgBegin"
    /\ painterActive' = writable
    /\ svgOut' = IF writable
                 THEN [i \in 1..Len(sceneItems) |-> renderedAs(heap[sceneItems[i]])]
                 ELSE <<>>
    /\ pc' = "svgRendered"
    /\ UNCHANGED <<sceneAlive, sceneItems, heap, sceneRect, ret, adjFrom, adjSteps,
                   appVars>>

\* a variant that returns at once when the painter could not be begun
toSvg_enable_returnOnFailure ==
    /\ pc = "svgRendered"
    /\ heap' = IF painterActive THEN enableGraphicsEffects(TRUE) ELSE heap
    /\ pc' = "idle"
    /\ ret' = [op |-> "toSvg", args |-> ret.args, val |-> toSvg_result(painterActive)]
    /\ UNCHANGED <<sceneAlive, sceneItems, sceneRect, painterActive, svgOut, adjFrom, adjSteps,
                   appVars>>

toSvg_enable ==
    /\ pc = "svgRendered"
    /\ heap' = enableGraphicsEffects(TRUE)
    /\ pc' = "idle"
    /\ ret' = [op |-> "toSvg", args |-> ret.args, val |-> toSvg_result(painterActive)]
    /\ UNCHANGED <<sceneAlive, sceneItems, sceneRect, painterActive, svgOut, adjFrom, adjSteps,
                   appVars>>

(***************************************************************************)
(* The SVG export specification: items with no effect, an enabled effect   *)
(* or an effect their owner has disabled are added and taken out, and the  *)
(* scene is exported to a file that can or cannot be written.              *)
(***************************************************************************)
Effects == {"none", "enabled", "disabled"}

SvgItems ==
    {NodeItem(0, Rect(0, 0, 1, 1), ef) : ef \in Effects}
        \cup {EdgeItem(0, 0, ef) : ef \in Effects}

NextSvg ==
    \/ \E item \in SvgItems : AddNewItem(item)
    \/ \E id \in ItemIds : AddDetachedItem(id)
    \/ \E id \in ItemIds : RemoveItem(id)
    \/ toSvg_disable
    \/ \E writable \in BOOLEAN : toSvg_render(writable)
    \/ toSvg_enable

SpecSvg == InitScene /\ [][NextSvg]_vars

(***************************************************************************)
(* Claims about toSvg.                                                     *)
(***************************************************************************)
SvgReturned == pc = "idle" /\ ret.op = "toSvg"

\* C3: in toSvg() no scene item has an enabled graphics effect from before
\* the rendering starts until it is over (so every item is rendered as
\* vector paths), and when toSvg() returns every scene item that has an
\* effect has it enabled, also when the file could not be written.
C3_EffectsOffThenOn ==
    /\ pc \in {"svgBegin", "svgRendered"} =>
           \A id \in Range(sceneItems) : heap[id].effect # "enabled"
    /\ (pc = "svgRendered" /\ painterActive) =>
           /\ Len(svgOut) = Len(sceneItems)
           /\ \A i \in 1..Len(svgOut) : svgOut[i] = "vector"
    /\ SvgReturned =>
           \A id \in Range(sceneItems) :
               heap[id].effect # "none" => heap[id].effect = "enabled"

C3_Witness ==
    /\ SvgReturned
    /\ ~painterActive
    /\ Cardinality({id \in Range(sceneItems) : heap[id].effect = "enabled"}) >= 2

\* C4: a failed SVG export (the painter could not be begun on the file)
\* returns to the caller a value that differs from the value a successful
\* export returns.
C4_FailureSurfaced ==
    (SvgReturned /\ ~painterActive) => ret.val # toSvg_result(TRUE)

(***************************************************************************)
(* EditorScene::toImage.  An image (QImage, Format_ARGB32) is its size and *)
(* one colour, alpha and rgb, per pixel.  The image is created in the      *)
(* requested size, filled with Qt::transparent or with the background      *)
(* colour, and the scene is rendered onto it: with no item in the scene    *)
(* nothing is painted, with items some region of the image (none of it,    *)
(* one pixel, all of it) gets the items' ink.  Sizes are valid, non-empty  *)
(* sizes, 1..MaxDim each way, as an export asks for.                       *)
(***************************************************************************)
Colour(a, rgb) == [a |-> a, rgb |-> rgb]

QtTransparent == Colour(0, 0)

ItemInk == Colour(255, 3)

BackgroundColours == {Colour(255, 1), Colour(255, 2), Colour(128, 1)}

ImageSizes == (1..MaxDim) \X (1..MaxDim)

Pixels(size) == (1..size[1]) \X (1..size[2])

\* QImage(size, format) followed by QImage::fill(colour)
filledImage(size, colour) == [size |-> size, px |-> [p \in Pixels(size) |-> colour]]

\* a variant with the two branches exchanged
fillColour_swapped(backgroundColor, transparentBackground) ==
    IF transparentBackground THEN backgroundColor ELSE QtTransparent

\* transparentBackground ? Qt::transparent : backgroundColor
fillColour(backgroundColor, transparentBackground) ==
    IF transparentBackground THEN QtTransparent ELSE backgroundColor

\* the regions of the image render(&painter) may paint
renderRegions(items, size) ==
    IF items = <<>> THEN {{}}
    ELSE {{}, Pixels(size)} \cup {{p} : p \in Pixels(size)}

painted(image, region) ==
    [image EXCEPT !.px = [p \in Pixels(image.size) |->
                             IF p \in region THEN ItemInk ELSE image.px[p]]]

toImage(size, backgroundColor, transparentBackground) ==
    /\ Idle
    /\ \E region \in renderRegions(sceneItems, size) :
           ret' = [op |-> "toImage",
                   args |-> <<size, backgroundColor, transparentBackground>>,
                   val |-> painted(filledImage(size, fillColour(backgroundColor,
                                                               transparentBackground)),
                                   region)]
    /\ UNCHANGED <<sceneAlive, sceneItems, heap, sceneRect, pc, painterActive, svgOut,
                   adjFrom, adjSteps,
                   appVars>>

(***************************************************************************)
(* The image export specification.                                         *)
(***************************************************************************)
ImageItems == {NodeItem(0, Rect(0, 0, 1, 1), "none"), EdgeItem(0, 0, "none")}

NextImage ==
    \/ \E item \in ImageItems : AddNewItem(item)
    \/ \E id \in ItemIds : RemoveItem(id)
    \/ \E size \in ImageSizes, colour \in BackgroundColours, transparent \in BOOLEAN :
           toImage(size, colour, transparent)

SpecImage == InitScene /\ [][NextImage]_vars

\* C5: toImage(size, backgroundColor, transparentBackground), for a valid
\* size, returns an image of exactly that size; for an empty scene every
\* pixel is fully transparent when transparentBackground is true, and every
\* pixel equals the background colour, and so is not transparent, when
\* transparentBackground is false and the background colour is solid.
C5_ImageSizeAndBackground ==
    ret.op = "toImage" =>
        LET size == ret.args[1]
            backgroundColor == ret.args[2]
            transparentBackground == ret.args[3]
            image == ret.val
        IN  /\ image.size = size
            /\ DOMAIN image.px = Pixels(size)
            /\ (sceneItems = <<>> /\ transparentBackground) =>
                   \A p \in Pixels(size) : image.px[p].a = 0
            /\ (sceneItems = <<>> /\ ~transparentBackground /\ backgroundColor.a = 255) =>
                   \A p \in Pixels(size) :
                       image.px[p] = backgroundColor /\ image.px[p].a # 0

C5_Witness ==
    /\ ret.op = "toImage"
    /\ sceneItems = <<>>
    /\ ret.args[1] = <<MaxDim, 1>>
    /\ ~ret.args[3]
    /\ ret.args[2].a = 255

(***************************************************************************)
(* EditorScene::hasEdge: the items are walked in order; the first edge     *)
(* item whose source node has the index of node0 and whose target node has *)
(* the index of node1 ends the walk with true.                             *)
(***************************************************************************)
\* a variant that compares the target with node0 as well
RECURSIVE hasEdgeFrom_sourceTwice(_, _, _, _, _)
hasEdgeFrom_sourceTwice(items, objs, index0, index1, i) ==
    IF i > Len(items) THEN FALSE
    ELSE IF /\ objs[items[i]].kind = "edge"
            /\ objs[items[i]].source = index0
            /\ objs[items[i]].target = index0
         THEN TRUE
         ELSE hasEdgeFrom_sourceTwice(items, objs, index0, index1, i + 1)

\* a variant that takes an edge in either direction
RECURSIVE hasEdgeFrom_eitherDirection(_, _, _, _, _)
hasEdgeFrom_eitherDirection(items, objs, index0, index1, i) ==
    IF i > Len(items) THEN FALSE
    ELSE IF /\ objs[items[i]].kind = "edge"
            /\ \/ objs[items[i]].source = index0 /\ objs[items[i]].target = index1
               \/ objs[items[i]].source = index1 /\ objs[items[i]].target = index0
         THEN TRUE
         ELSE hasEdgeFrom_eitherDirection(items, objs, index0, index1, i + 1)

RECURSIVE hasEdgeFrom(_, _, _, _, _)
hasEdgeFrom(items, objs, index0, index1, i) ==
    IF i > Len(items) THEN FALSE
    ELSE IF /\ objs[items[i]].kind = "edge"
            /\ objs[items[i]].source = index0
            /\ objs[items[i]].target = index1
         THEN TRUE
         ELSE hasEdgeFrom(items, objs, index0, index1, i + 1)

hasEdge(index0, index1) == hasEdgeFrom(sceneItems, heap, index0, index1, 1)

hasEdge_call(index0, index1) ==
    /\ Idle
    /\ ret' = [op |-> "hasEdge", args |-> <<index0, index1>>, val |-> hasEdge(index0, index1)]
    /\ UNCHANGED <<sceneAlive, sceneItems, heap, sceneRect, pc, painterActive, svgOut,
                   adjFrom, adjSteps,
                   appVars>>

(***************************************************************************)
(* EditorScene::removeItems: removeItem(item) for every item of the list   *)
(* items() returned when the loop was entered.                             *)
(***************************************************************************)
\* a variant that walks the shrinking list itself and so skips every other item
RECURSIVE removeItemsFrom_skipping(_, _, _)
removeItemsFrom_skipping(snapshot, items, i) ==
    IF i > Len(items) THEN items
    ELSE removeItemsFrom_skipping(snapshot, WithoutItem(items, items[i]), i + 1)

RECURSIVE removeItemsFrom(_, _, _)
removeItemsFrom(snapshot, items, i) ==
    IF i > Len(snapshot) THEN items
    ELSE removeItemsFrom(snapshot, WithoutItem(items, snapshot[i]), i + 1)

removeItems ==
    /\ Idle
    /\ sceneItems' = removeItemsFrom(sceneItems, sceneItems, 1)
    /\ ret' = [op |-> "removeItems", args |-> <<sceneItems>>, val |-> Void]
    /\ UNCHANGED <<sceneAlive, heap, sceneRect, pc, painterActive, svgOut, adjFrom, adjSteps,
                   appVars>>

(***************************************************************************)
(* EditorScene::~EditorScene: removeItems(), and then the QGraphicsScene   *)
(* destructor, which destroys every item that is still in the scene.       *)
(***************************************************************************)
destructor ==
    /\ Idle
    /\ LET left == removeItemsFrom(sceneItems, sceneItems, 1)
       IN  heap' = [id \in ItemIds |-> IF id \in Range(left) THEN NoItem ELSE heap[id]]
    /\ sceneItems' = <<>>
    /\ sceneAlive' = FALSE
    /\ ret' = [op |-> "~EditorScene", args |-> <<sceneItems>>, val |-> Void]
    /\ UNCHANGED <<sceneRect, pc, painterActive, svgOut, adjFrom, adjSteps,
                   appVars>>

(***************************************************************************)
(* The graph items specification: node items of every index and edge       *)
(* items between every ordered pair of indices are added, taken out, added *)
(* again and queried, all items are removed, the scene is destroyed.       *)
(***************************************************************************)
GraphItems ==
    {NodeItem(n, Rect(0, 0, 1, 1), "none") : n \in NodeIndices}
        \cup {EdgeItem(a, b, "none") : a \in NodeIndices, b \in NodeIndices}

NextGraph ==
    \/ \E item \in GraphItems : AddNewItem(item)
    \/ \E id \in ItemIds : AddDetachedItem(id)
    \/ \E id \in ItemIds : RemoveItem(id)
    \/ \E a \in NodeIndices, b \in NodeIndices : hasEdge_call(a, b)
    \/ removeItems
    \/ destructor

SpecGraph == InitScene /\ [][NextGraph]_vars

(***************************************************************************)
(* Claims about hasEdge, removeItems and the destructor.                   *)
(***************************************************************************)
\* some edge item in the scene has source index a and target index b
EdgeInScene(a, b) ==
    \E id \in Range(sceneItems) :
        heap[id].kind = "edge" /\ heap[id].source = a /\ heap[id].target = b

\* C6: hasEdge(a, b) is false while no edge item with source a and target b
\* is in the scene and true while one is: from the moment it is added until
\* it is removed.  It holds of the query in every state and of the value
\* the last call returned.
C6_HasEdgeIffEdgeItem ==
    /\ \A a \in NodeIndices, b \in NodeIndices : hasEdge(a, b) = EdgeInScene(a, b)
    /\ (sceneAlive /\ ret.op = "hasEdge") =>
           ret.val = EdgeInScene(ret.args[1], ret.args[2])

C6_Witness ==
    /\ ret.op = "hasEdge"
    /\ ret.val = TRUE
    /\ ret.args[1] # ret.args[2]
    /\ ~EdgeInScene(ret.args[2], ret.args[1])
    /\ Len(sceneItems) >= 2

\* C7: removeItems() leaves no item in the scene and leaves every item
\* object as it was; the destructor destroys no item object: everything
\* that was in the scene still exists, with the same data, afterwards.
C7_RemoveItemsDetaches ==
    /\ [][(pc = "idle" /\ ret'.op \in {"removeItems", "~EditorScene"}) =>
              (sceneItems' = <<>> /\ heap' = heap)]_vars
    /\ [](ret.op \in {"removeItems", "~EditorScene"} =>
              /\ sceneItems = <<>>
              /\ \A id \in Range(ret.args[1]) : heap[id] # NoItem)
    /\ [](ret.op = "~EditorScene" <=> ~sceneAlive)

C7_Witness ==
    /\ ~sceneAlive
    /\ ret.op = "~EditorScene"
    /\ \E i, j \in Range(ret.args[1]) : heap[i].kind = "node" /\ heap[j].kind = "edge"

(***************************************************************************)
(* The application (application.cpp).  runState is called with the state   *)
(* the state machine has entered and runs that state's handler to its end  *)
(* on the one thread of the program.  A handler is the sequence of calls   *)
(* it makes on its collaborators (main window, settings, service, dialogs) *)
(* and of actions it emits to the state machine; what it reads back from a *)
(* collaborator (the file name a dialog returns, whether the service       *)
(* succeeded, how a dialog was closed) is an input of the handler.  The    *)
(* state after the handler is the effect of its calls, in order.           *)
(*                                                                         *)
(* File names are sequences over a two-letter alphabet that spells the     *)
(* file extension, so that names end with it, contain it, or do neither.   *)
(***************************************************************************)
Chars == {".", "z"}

\* Constants::Application::fileExtension()
fileExtension == <<".", "z">>

RECURSIVE NamesOfLen(_)
NamesOfLen(n) ==
    IF n = 0 THEN {<<>>}
    ELSE {Append(name, c) : name \in NamesOfLen(n - 1), c \in Chars}

FileNames == UNION {NamesOfLen(n) : n \in 0..MaxNameLen}

\* the names a mind map is opened by: what they spell is passed on unread
OpenNames == UNION {NamesOfLen(n) : n \in 0..1}

\* QString::endsWith
endsWith(name, suffix) ==
    /\ Len(name) >= Len(suffix)
    /\ SubSeq(name, Len(name) - Len(suffix) + 1, Len(name)) = suffix

Call(ev, arg) == [ev |-> ev, arg |-> arg]

Emit(action) == Call("emit", action)

updateProgress == Call("updateProgress", <<>>)

(***************************************************************************)
(* What the collaborators do when called.  clearNodeSelectionGroup and     *)
(* clearEdgeSelectionGroup belong to the service, which is not part of the *)
(* sources at hand: with the implicit-only flag a group is emptied only if *)
(* it was selected implicitly, without it always.                          *)
(***************************************************************************)
clearSelectionGroup(group, implicitOnly) ==
    IF ~implicitOnly \/ group.implicit THEN NoSelectionGroup ELSE group

effect(st, call) ==
    CASE call.ev = "showSpinnerDialog" ->
             [st EXCEPT !.mainWindow.spinner = call.arg]
      [] call.ev = "disableUndoAndRedo" ->
             [st EXCEPT !.mainWindow.undo = FALSE, !.mainWindow.redo = FALSE]
      [] call.ev = "setSaveActionStatesOnOpenedMindMap" ->
             [st EXCEPT !.mainWindow.save = FALSE, !.mainWindow.saveAs = TRUE]
      [] call.ev = "enableSave" ->
             [st EXCEPT !.mainWindow.save = call.arg]
      [] call.ev = "saveRecentPath" ->
             [st EXCEPT !.settings.recentPath = call.arg]
      [] call.ev = "saveRecentImagePath" ->
             [st EXCEPT !.settings.recentImagePath = call.arg]
      [] call.ev = "clearEdgeSelectionGroup" ->
             [st EXCEPT !.selection.edge = clearSelectionGroup(@, call.arg)]
      [] call.ev = "clearNodeSelectionGroup" ->
             [st EXCEPT !.selection.node = clearSelectionGroup(@, call.arg)]
      [] OTHER -> st

RECURSIVE effects(_, _, _)
effects(st, calls, i) ==
    IF i > Len(calls) THEN st ELSE effects(effect(st, calls[i]), calls, i + 1)

(***************************************************************************)
(* Application::doOpenMindMap                                              *)
(***************************************************************************)
\* a variant that disables undo and redo before the open is attempted
doOpenMindMap_disableFirst(fileName, opened) ==
    <<Call("showSpinnerDialog", TRUE), updateProgress,
      Call("disableUndoAndRedo", <<>>),
      Call("service.openMindMap", <<fileName, opened>>)>>
    \o IF opened
       THEN <<updateProgress,
              Call("setSaveActionStatesOnOpenedMindMap", <<>>), updateProgress,
              Call("saveRecentPath", fileName), updateProgress,
              Call("showSpinnerDialog", FALSE), updateProgress,
              Emit("MindMapOpened")>>
       ELSE <<Call("showSpinnerDialog", FALSE), updateProgress,
              Emit("OpeningMindMapFailed")>>

\* a variant that emits MindMapOpened while the spinner is still shown
doOpenMindMap_emitFirst(fileName, opened) ==
    <<Call("showSpinnerDialog", TRUE), updateProgress,
      Call("service.openMindMap", <<fileName, opened>>)>>
    \o IF opened
       THEN <<Call("disableUndoAndRedo", <<>>), updateProgress,
              Call("setSaveActionStatesOnOpenedMindMap", <<>>), updateProgress,
              Call("saveRecentPath", fileName), updateProgress,
              Emit("MindMapOpened"),
              Call("showSpinnerDialog", FALSE), updateProgress>>
       ELSE <<Call("showSpinnerDialog", FALSE), updateProgress,
              Emit("OpeningMindMapFailed")>>

doOpenMindMap(fileName, opened) ==
    <<Call("showSpinnerDialog", TRUE), updateProgress,
      Call("service.openMindMap", <<fileName, opened>>)>>
    \o IF opened
       THEN <<Call("disableUndoAndRedo", <<>>), updateProgress,
              Call("setSaveActionStatesOnOpenedMindMap", <<>>), updateProgress,
              Call("saveRecentPath", fileName), updateProgress,
              Call("showSpinnerDialog", FALSE), updateProgress,
              Emit("MindMapOpened")>>
       ELSE <<Call("showSpinnerDialog", FALSE), updateProgress,
              Emit("OpeningMindMapFailed")>>

\* Application::openArgMindMap
openArgMindMap(mindMapFile, opened) == doOpenMindMap(mindMapFile, opened)

\* Application::openMindMap: chosen is what QFileDialog::getOpenFileName returned
openMindMap(recentPath, chosen, opened) ==
    <<Call("loadRecentPath", recentPath), Call("getOpenFileName", chosen)>>
    \o IF chosen # <<>>
       THEN doOpenMindMap(chosen, opened)
       ELSE <<Emit("OpeningMindMapCanceled")>>

(***************************************************************************)
(* Application::saveMindMap, Application::saveMindMapAs                    *)
(***************************************************************************)
showMessageBox(message) == Call("showMessageBox", message)

\* a variant that disables the save action before it knows the outcome
saveMindMap_disableFirst(saved) ==
    <<Call("enableSave", FALSE), Call("service.saveMindMap", saved)>>
    \o IF ~saved
       THEN <<showMessageBox("Failed to save file."), Emit("MindMapSaveFailed")>>
       ELSE <<Emit("MindMapSaved")>>

saveMindMap(saved) ==
    <<Call("service.saveMindMap", saved)>>
    \o IF ~saved
       THEN <<showMessageBox("Failed to save file."), Emit("MindMapSaveFailed")>>
       ELSE <<Call("enableSave", FALSE), Emit("MindMapSaved")>>

\* a variant that appends the extension before it looks for a cancelled dialog
saveMindMapAs_extendFirst(recentPath, chosen, saved) ==
    LET fileName == IF ~endsWith(chosen, fileExtension)
                    THEN chosen \o fileExtension
                    ELSE chosen
    IN  <<Call("loadRecentPath", recentPath), Call("getSaveFileName", chosen)>>
        \o IF fileName = <<>>
           THEN <<Emit("MindMapSaveAsCanceled")>>
           ELSE <<Call("service.saveMindMapAs", <<fileName, saved>>)>>
                \o IF saved
                   THEN <<Call("enableSave", FALSE), Call("saveRecentPath", fileName),
                          Emit("MindMapSavedAs")>>
                   ELSE <<showMessageBox("Failed to save file as"),
                          Emit("MindMapSaveAsFailed")>>

\* a variant that appends the extension to every name
saveMindMapAs_alwaysAppend(recentPath, chosen, saved) ==
    <<Call("loadRecentPath", recentPath), Call("getSaveFileName", chosen)>>
    \o IF chosen = <<>>
       THEN <<Emit("MindMapSaveAsCanceled")>>
       ELSE LET fileName == chosen \o fileExtension
            IN  <<Call("service.saveMindMapAs", <<fileName, saved>>)>>
                \o IF saved
                   THEN <<Call("enableSave", FALSE), Call("saveRecentPath", fileName),
                          Emit("MindMapSavedAs")>>
                   ELSE <<showMessageBox("Failed to save file as"),
                          Emit("MindMapSaveAsFailed")>>

\* chosen is what QFileDialog::getSaveFileName returned
saveMindMapAs(recentPath, chosen, saved) ==
    <<Call("loadRecentPath", recentPath), Call("getSaveFileName", chosen)>>
    \o IF chosen = <<>>
       THEN <<Emit("MindMapSaveAsCanceled")>>
       ELSE LET fileName == IF ~endsWith(chosen, fileExtension)
                            THEN chosen \o fileExtension
                            ELSE chosen
            IN  <<Call("service.saveMindMapAs", <<fileName, saved>>)>>
                \o IF saved
                   THEN <<Call("enableSave", FALSE), Call("saveRecentPath", fileName),
                          Emit("MindMapSavedAs")>>
                   ELSE <<showMessageBox("Failed to save file as"),
                          Emit("MindMapSaveAsFailed")>>

(***************************************************************************)
(* The colour dialogs.  result is what SceneColorDialog(role).exec()       *)
(* returned.                                                               *)
(***************************************************************************)
DialogResults == {"Accepted", "Rejected"}

showBackgroundColorDialog(result) ==
    <<Call("SceneColorDialog.exec", <<"Background", result>>),
      Emit("BackgroundColorChanged")>>

showEdgeColorDialog(result) ==
    <<Call("SceneColorDialog.exec", <<"Edge", result>>)>>
    \o (IF result # "Accepted" THEN <<Call("clearEdgeSelectionGroup", TRUE)>> ELSE <<>>)
    \o <<Emit("EdgeColorChanged")>>

showGridColorDialog(result) ==
    <<Call("SceneColorDialog.exec", <<"Grid", result>>),
      Emit("GridColorChanged")>>

showNodeColorDialog(result) ==
    <<Call("SceneColorDialog.exec", <<"Node", result>>)>>
    \o (IF result # "Accepted" THEN <<Call("clearNodeSelectionGroup", TRUE)>> ELSE <<>>)
    \o <<Emit("NodeColorChanged")>>

\* a variant that clears the node selection group unconditionally
showTextColorDialog_clearAll(result) ==
    <<Call("SceneColorDialog.exec", <<"Text", result>>)>>
    \o (IF result # "Accepted" THEN <<Call("clearNodeSelectionGroup", FALSE)>> ELSE <<>>)
    \o <<Emit("TextColorChanged")>>

showTextColorDialog(result) ==
    <<Call("SceneColorDialog.exec", <<"Text", result>>)>>
    \o (IF result # "Accepted" THEN <<Call("clearNodeSelectionGroup", TRUE)>> ELSE <<>>)
    \o <<Emit("TextColorChanged")>>

(***************************************************************************)
(* Application::showImageFileDialog.  fileName is what                     *)
(* QFileDialog::getOpenFileName returned, empty when the dialog was        *)
(* cancelled; decodable says whether the file holds an image.              *)
(***************************************************************************)
\* QImage::load: no file name, no image
imageLoad(fileName, decodable) == fileName # <<>> /\ decodable

\* a variant that reports every failed load, the cancelled dialog's too
showImageFileDialog_errorOnCancel(recentImagePath, fileName, decodable) ==
    <<Call("loadRecentImagePath", recentImagePath), Call("getOpenFileName", fileName),
      Call("QImage.load", <<fileName, imageLoad(fileName, decodable)>>)>>
    \o IF imageLoad(fileName, decodable)
       THEN <<Call("performNodeAction", <<"AttachImage", fileName>>),
              Call("saveRecentImagePath", fileName)>>
       ELSE <<Call("QMessageBox.critical", fileName)>>

showImageFileDialog(recentImagePath, fileName, decodable) ==
    <<Call("loadRecentImagePath", recentImagePath), Call("getOpenFileName", fileName),
      Call("QImage.load", <<fileName, imageLoad(fileName, decodable)>>)>>
    \o IF imageLoad(fileName, decodable)
       THEN <<Call("performNodeAction", <<"AttachImage", fileName>>),
              Call("saveRecentImagePath", fileName)>>
       ELSE IF fileName # <<>>
            THEN <<Call("QMessageBox.critical", fileName)>>
            ELSE <<>>

(***************************************************************************)
(* The export dialogs and the layout optimization dialog.  result is what  *)
(* exec() returned; while the layout optimization dialog is open it may    *)
(* request an undo point, which goes to the service's saveUndoPoint.       *)
(***************************************************************************)
showPngExportDialog(result) ==
    <<Call("setCurrentMindMapFileName", "PngExportDialog"),
      Call("setDefaultImageSize", "PngExportDialog"),
      Call("PngExportDialog.exec", result),
      Emit("PngExported")>>

showSvgExportDialog(result) ==
    <<Call("setCurrentMindMapFileName", "SvgExportDialog"),
      Call("SvgExportDialog.exec", result),
      Emit("SvgExported")>>

showLayoutOptimizationDialog(undoPointRequested, result) ==
    (IF undoPointRequested THEN <<Call("service.saveUndoPoint", <<>>)>> ELSE <<>>)
    \o <<Call("LayoutOptimizationDialog.exec", result)>>
    \o (IF result = "Accepted" THEN <<Call("zoomToFit", <<>>)>> ELSE <<>>)
    \o <<Emit("LayoutOptimized")>>

(***************************************************************************)
(* Application::showNotSavedDialog and what runState does with the button  *)
(* it returns.  The message box has the Save, Discard and Cancel buttons.  *)
(***************************************************************************)
NotSavedButtons == {"Save", "Discard", "Cancel"}

showNotSavedDialog(button) == <<Call("QMessageBox.exec", button)>>

notSavedDialogShown(button) ==
    showNotSavedDialog(button)
    \o CASE button = "Save" -> <<Emit("NotSavedDialogAccepted")>>
          [] button = "Discard" -> <<Emit("NotSavedDialogDiscarded")>>
          [] button = "Cancel" -> <<Emit("NotSavedDialogCanceled")>>
          [] OTHER -> <<>>

(***************************************************************************)
(* Application::runState: a handler runs to its end.                       *)
(***************************************************************************)
\* the handler whose calls are trace' has run: the state is what its calls
\* make of it
handled ==
    LET st == effects([mainWindow |-> mainWindow, settings |-> settings,
                       selection |-> selection], trace', 1)
    IN  /\ mainWindow' = st.mainWindow
        /\ settings' = st.settings
        /\ selection' = st.selection
        /\ UNCHANGED <<sceneVars, editVars, app>>

runState(state) == <<Call("runState", state)>>

runState_OpenRecent ==
    \E selectedFile \in OpenNames, opened \in BOOLEAN :
        /\ trace' = runState("OpenRecent") \o doOpenMindMap(selectedFile, opened)
        /\ handled

runState_OpenDrop ==
    \E dropFile \in OpenNames, opened \in BOOLEAN :
        /\ trace' = runState("OpenDrop") \o doOpenMindMap(dropFile, opened)
        /\ handled

runState_Save ==
    \E saved \in BOOLEAN :
        /\ trace' = runState("Save") \o saveMindMap(saved)
        /\ handled

runState_ShowSaveAsDialog ==
    \E chosen \in FileNames, saved \in BOOLEAN :
        /\ trace' = runState("ShowSaveAsDialog")
                        \o saveMindMapAs(settings.recentPath, chosen, saved)
        /\ handled

runState_ShowOpenDialog ==
    \E chosen \in OpenNames, opened \in BOOLEAN :
        /\ trace' = runState("ShowOpenDialog")
                        \o openMindMap(settings.recentPath, chosen, opened)
        /\ handled

runState_ShowBackgroundColorDialog ==
    \E result \in DialogResults :
        /\ trace' = runState("ShowBackgroundColorDialog") \o showBackgroundColorDialog(result)
        /\ handled

runState_ShowEdgeColorDialog ==
    \E result \in DialogResults :
        /\ trace' = runState("ShowEdgeColorDialog") \o showEdgeColorDialog(result)
        /\ handled

runState_ShowGridColorDialog ==
    \E result \in DialogResults :
        /\ trace' = runState("ShowGridColorDialog") \o showGridColorDialog(result)
        /\ handled

runState_ShowNodeColorDialog ==
    \E result \in DialogResults :
        /\ trace' = runState("ShowNodeColorDialog") \o showNodeColorDialog(result)
        /\ handled

runState_ShowTextColorDialog ==
    \E result \in DialogResults :
        /\ trace' = runState("ShowTextColorDialog") \o showTextColorDialog(result)
        /\ handled

runState_ShowImageFileDialog ==
    \E fileName \in OpenNames, decodable \in BOOLEAN :
        /\ trace' = runState("ShowImageFileDialog")
                        \o showImageFileDialog(settings.recentImagePath, fileName, decodable)
        /\ handled

runState_ShowPngExportDialog ==
    \E result \in DialogResults :
        /\ trace' = runState("ShowPngExportDialog") \o showPngExportDialog(result)
        /\ handled

runState_ShowSvgExportDialog ==
    \E result \in DialogResults :
        /\ trace' = runState("ShowSvgExportDialog") \o showSvgExportDialog(result)
        /\ handled

runState_ShowLayoutOptimizationDialog ==
    \E undoPointRequested \in BOOLEAN, result \in DialogResults :
        /\ trace' = runState("ShowLayoutOptimizationDialog")
                        \o showLayoutOptimizationDialog(undoPointRequested, result)
        /\ handled

runState_ShowNotSavedDialog ==
    \E button \in NotSavedButtons :
        /\ trace' = runState("ShowNotSavedDialog") \o notSavedDialogShown(button)
        /\ handled

(***************************************************************************)
(* The files specification: mind maps are opened and saved.  The handlers  *)
(* are entered with the undo, redo, save and save-as actions enabled or    *)
(* not, as the editing before has left them.                               *)
(***************************************************************************)
InitFiles ==
    /\ sceneConstructed
    /\ editorAtRest
    /\ applicationRunning
    /\ mainWindow \in [undo : BOOLEAN, redo : BOOLEAN, save : BOOLEAN, saveAs : BOOLEAN,
                       spinner : {FALSE}]
    /\ settings = [recentPath |-> <<>>, recentImagePath |-> <<>>]
    /\ selection = [node |-> NoSelectionGroup, edge |-> NoSelectionGroup]
    /\ trace = <<>>

NextFiles ==
    \/ runState_OpenRecent
    \/ runState_OpenDrop
    \/ runState_Save
    \/ runState_ShowSaveAsDialog
    \/ runState_ShowOpenDialog

SpecFiles == InitFiles /\ [][NextFiles]_vars

(***************************************************************************)
(* The colour dialogs specification: the dialogs are entered with nothing  *)
(* selected, with a selection the user made, or with the selection the     *)
(* action that opens the dialog made implicitly.                           *)
(***************************************************************************)
SelectionGroups(ids) ==
    {NoSelectionGroup}
        \cup {[items |-> S, implicit |-> b] : S \in (SUBSET ids) \ {{}}, b \in BOOLEAN}

InitDialogs ==
    /\ sceneConstructed
    /\ editorAtRest
    /\ applicationRunning
    /\ mainWindow = [undo |-> FALSE, redo |-> FALSE, save |-> FALSE, saveAs |-> FALSE,
                     spinner |-> FALSE]
    /\ settings = [recentPath |-> <<>>, recentImagePath |-> <<>>]
    /\ selection \in [node : SelectionGroups(NodeIndices), edge : SelectionGroups(ItemIds)]
    /\ trace = <<>>

NextDialogs ==
    \/ runState_ShowBackgroundColorDialog
    \/ runState_ShowEdgeColorDialog
    \/ runState_ShowGridColorDialog
    \/ runState_ShowNodeColorDialog
    \/ runState_ShowTextColorDialog

SpecDialogs == InitDialogs /\ [][NextDialogs]_vars

(***************************************************************************)
(* The dialog states specification: every state of runState that shows a   *)
(* dialog, entered with the main window as the editing before has left it. *)
(***************************************************************************)
DialogStates ==
    {"ShowBackgroundColorDialog", "ShowEdgeColorDialog", "ShowGridColorDialog",
     "ShowNodeColorDialog", "ShowTextColorDialog", "ShowImageFileDialog",
     "ShowPngExportDialog", "ShowSvgExportDialog", "ShowLayoutOptimizationDialog",
     "ShowNotSavedDialog", "ShowSaveAsDialog", "ShowOpenDialog"}

NextDialogStates ==
    \/ runState_ShowBackgroundColorDialog
    \/ runState_ShowEdgeColorDialog
    \/ runState_ShowGridColorDialog
    \/ runState_ShowNodeColorDialog
    \/ runState_ShowTextColorDialog
    \/ runState_ShowImageFileDialog
    \/ runState_ShowPngExportDialog
    \/ runState_ShowSvgExportDialog
    \/ runState_ShowLayoutOptimizationDialog
    \/ runState_ShowNotSavedDialog
    \/ runState_ShowSaveAsDialog
    \/ runState_ShowOpenDialog

SpecDialogStates == InitFiles /\ [][NextDialogStates]_vars

(***************************************************************************)
(* Claims about the application's handlers.                                *)
(***************************************************************************)
\* the calls of one kind in a handler's trace, in order
CallsOf(t, ev) == SelectSeq(t, LAMBDA c : c.ev = ev)

\* the actions a handler emitted, in order
Emitted(t) == [i \in 1..Len(CallsOf(t, "emit")) |-> CallsOf(t, "emit")[i].arg]

\* the handler that ran last called doOpenMindMap; what the service returned
OpenAttempted(t) == CallsOf(t, "service.openMindMap") # <<>>

OpenSucceeded(t) == CallsOf(t, "service.openMindMap")[1].arg[2]

\* C8: a call of doOpenMindMap attempts the open once and emits exactly one
\* action, MindMapOpened if the service's openMindMap returned true and
\* OpeningMindMapFailed if not; a failed open leaves undo and redo
\* availability, the save-action states and the stored recent path as they
\* were.
C8_OpenEmitsOnceAndFailureKeepsState ==
    /\ [](OpenAttempted(trace) =>
            /\ Len(CallsOf(trace, "service.openMindMap")) = 1
            /\ Emitted(trace) \in {<<"MindMapOpened">>, <<"OpeningMindMapFailed">>}
            /\ (Emitted(trace) = <<"MindMapOpened">>) <=> OpenSucceeded(trace))
    /\ [][(OpenAttempted(trace') /\ ~OpenSucceeded(trace')) =>
            /\ mainWindow'.undo = mainWindow.undo
            /\ mainWindow'.redo = mainWindow.redo
            /\ mainWindow'.save = mainWindow.save
            /\ mainWindow'.saveAs = mainWindow.saveAs
            /\ settings'.recentPath = settings.recentPath]_vars

C8_Witness ==
    /\ OpenAttempted(trace)
    /\ ~OpenSucceeded(trace)
    /\ Emitted(trace) = <<"OpeningMindMapFailed">>
    /\ mainWindow.undo /\ mainWindow.redo /\ mainWindow.saveAs
    /\ settings.recentPath # <<>>

FailureActions == {"MindMapSaveFailed", "MindMapSaveAsFailed", "OpeningMindMapFailed"}

ColourDialogShown(t) == CallsOf(t, "SceneColorDialog.exec") # <<>>

DialogRole(t) == CallsOf(t, "SceneColorDialog.exec")[1].arg[1]

DialogResult(t) == CallsOf(t, "SceneColorDialog.exec")[1].arg[2]

SelectionClears(t) ==
    SelectSeq(t, LAMBDA c : c.ev \in {"clearEdgeSelectionGroup", "clearNodeSelectionGroup"})

\* C10: the edge, node and text colour dialogs clear a selection group
\* exactly when the dialog was not accepted: the edge dialog the edge
\* group, the node and text dialogs the node group, once and with the
\* implicit-only flag true; an accepted dialog and the background and grid
\* dialogs clear nothing.  So a group the user selected stays as it was,
\* the group the dialog is not about stays as it was, and an implicitly
\* selected group is emptied when its dialog is not accepted.
C10_ClearOnlyImplicitOnCancel ==
    /\ [](ColourDialogShown(trace) =>
            LET role == DialogRole(trace)
                clears == SelectionClears(trace)
            IN  IF role \in {"Edge", "Node", "Text"} /\ DialogResult(trace) # "Accepted"
                THEN /\ Len(clears) = 1
                     /\ clears[1].ev = IF role = "Edge" THEN "clearEdgeSelectionGroup"
                                       ELSE "clearNodeSelectionGroup"
                     /\ clears[1].arg = TRUE
                ELSE Len(clears) = 0)
    /\ [][ColourDialogShown(trace') =>
            LET role == DialogRole(trace')
                cancelled == DialogResult(trace') # "Accepted"
            IN  /\ ~selection.node.implicit => selection'.node = selection.node
                /\ ~selection.edge.implicit => selection'.edge = selection.edge
                /\ role # "Edge" => selection'.edge = selection.edge
                /\ role \notin {"Node", "Text"} => selection'.node = selection.node
                /\ ~cancelled => selection' = selection
                /\ (cancelled /\ role = "Edge" /\ selection.edge.implicit) =>
                       selection'.edge = NoSelectionGroup
                /\ (cancelled /\ role \in {"Node", "Text"} /\ selection.node.implicit) =>
                       selection'.node = NoSelectionGroup]_vars

C10_Witness ==
    /\ ColourDialogShown(trace)
    /\ DialogRole(trace) = "Text"
    /\ DialogResult(trace) = "Rejected"
    /\ selection.node.items # {} /\ ~selection.node.implicit
    /\ selection.edge.items # {} /\ selection.edge.implicit

\* the state whose handler ran last
StateRun(t) == IF t = <<>> THEN "none" ELSE t[1].arg

\* C11: the handler of every state that shows a dialog emits exactly one
\* action, whatever the dialog's outcome.
C11_DialogEmitsOnce ==
    StateRun(trace) \in DialogStates => Len(Emitted(trace)) = 1

\* the image file dialog: the chosen file name, and whether it loaded
ImageDialogShown(t) == CallsOf(t, "QImage.load") # <<>>

ImageFileName(t) == CallsOf(t, "QImage.load")[1].arg[1]

ImageLoaded(t) == CallsOf(t, "QImage.load")[1].arg[2]

\* C12: showImageFileDialog performs the AttachImage node action, with the
\* chosen file, and stores the chosen file as the recent image path exactly
\* when the file loaded as an image; a non-empty file name that did not
\* load gets one error message and no node action; an empty file name gets
\* neither, and the stored recent image path stays as it was.
C12_AttachIffDecoded ==
    /\ [](ImageDialogShown(trace) =>
            LET fileName == ImageFileName(trace)
                attached == CallsOf(trace, "performNodeAction")
                stored == CallsOf(trace, "saveRecentImagePath")
                errors == CallsOf(trace, "QMessageBox.critical")
            IN  /\ ImageLoaded(trace) =>
                       /\ fileName # <<>>
                       /\ attached = <<Call("performNodeAction", <<"AttachImage", fileName>>)>>
                       /\ stored = <<Call("saveRecentImagePath", fileName)>>
                       /\ errors = <<>>
                /\ ~ImageLoaded(trace) => attached = <<>> /\ stored = <<>>
                /\ (~ImageLoaded(trace) /\ fileName # <<>>) => Len(errors) = 1
                /\ fileName = <<>> => errors = <<>>)
    /\ [][ImageDialogShown(trace') =>
            settings'.recentImagePath =
                IF ImageLoaded(trace') THEN ImageFileName(trace')
                ELSE settings.recentImagePath]_vars

C12_Witness ==
    /\ ImageDialogShown(trace)
    /\ ~ImageLoaded(trace)
    /\ ImageFileName(trace) # <<>>
    /\ settings.recentImagePath # <<>>
    /\ settings.recentImagePath # ImageFileName(trace)

(***************************************************************************)
(* The document behind the Mediator (src/src/editor/mediator.hpp).  The    *)
(* header declares the operations; the graph model and the undo history    *)
(* they work on follow the design's description: a graph of indexed nodes  *)
(* and directed edges, and two stacks of graph snapshots.                  *)
(*                                                                         *)
(* A node has an index, a position, a text and a colour; an edge is the    *)
(* pair of its source and target index; count is the index the next node   *)
(* gets.                                                                   *)
(***************************************************************************)
Positions == {<<0, 0>>, <<50, 50>>}
Texts == {"", "text"}
NodeColors == {"white", "red"}

\* what refers to a node: an index, or -1 for none
NodeRefs == -1..(MaxNodes - 1)

Node(index, pos, text, color) ==
    [index |-> index, pos |-> pos, text |-> text, color |-> color]

NodeIndexes(graph) == {n.index : n \in graph.nodes}

hasNode(graph, index) == index \in NodeIndexes(graph)

\* Graph::addNode: the new node gets the next index
addNode(graph, pos) ==
    [graph EXCEPT !.nodes = @ \cup {Node(graph.count, pos, "", "white")},
                  !.count = @ + 1]

\* Graph::addEdge: rejected, and nothing changed, unless both ends exist
addEdge(graph, source, target) ==
    IF hasNode(graph, source) /\ hasNode(graph, target)
    THEN [graph EXCEPT !.edges = @ \cup {<<source, target>>}]
    ELSE graph

\* a variant that leaves the edges of the removed node in place
removeNode_keepEdges(graph, index) ==
    [graph EXCEPT !.nodes = {n \in @ : n.index # index}]

\* Graph::removeNode: the node goes, and every edge from or to it
removeNode(graph, index) ==
    [graph EXCEPT !.nodes = {n \in @ : n.index # index},
                  !.edges = {edge \in @ : edge[1] # index /\ edge[2] # index}]

removeEdge(graph, source, target) ==
    [graph EXCEPT !.edges = @ \ {<<source, target>>}]

moveNode(graph, index, pos) ==
    [graph EXCEPT !.nodes = {IF n.index = index THEN [n EXCEPT !.pos = pos] ELSE n : n \in @}]

setNodeText(graph, index, text) ==
    [graph EXCEPT !.nodes = {IF n.index = index THEN [n EXCEPT !.text = text] ELSE n : n \in @}]

setNodeColor(graph, index, color) ==
    [graph EXCEPT !.nodes = {IF n.index = index THEN [n EXCEPT !.color = color] ELSE n : n \in @}]

(***************************************************************************)
(* The undo history.                                                       *)
(***************************************************************************)
Last(stack) == stack[Len(stack)]

Front(stack) == SubSeq(stack, 1, Len(stack) - 1)

\* Mediator::isUndoable, Mediator::isRedoable
isUndoable(data) == data.undoStack # <<>>

isRedoable(data) == data.redoStack # <<>>

\* a variant that keeps the redo side
saveUndoPoint_keepRedo(data) ==
    [data EXCEPT !.undoStack = Append(@, data.graph)]

\* Mediator::saveUndoPoint
saveUndoPoint(data) ==
    [data EXCEPT !.undoStack = Append(@, data.graph), !.redoStack = <<>>]

\* a variant that puts the point it goes back to on the redo side
undo_redoPopped(data) ==
    [graph |-> Last(data.undoStack),
     undoStack |-> Front(data.undoStack),
     redoStack |-> Append(data.redoStack, Last(data.undoStack))]

\* Mediator::undo, with a point to go back to
undo(data) ==
    [graph |-> Last(data.undoStack),
     undoStack |-> Front(data.undoStack),
     redoStack |-> Append(data.redoStack, data.graph)]

\* Mediator::redo, with a point to go forward to
redo(data) ==
    [graph |-> Last(data.redoStack),
     undoStack |-> Append(data.undoStack, data.graph),
     redoStack |-> Front(data.redoStack)]

(***************************************************************************)
(* The Mediator's structural operations: each saves an undo point itself   *)
(* before it changes the graph.                                            *)
(***************************************************************************)
\* a variant that adds the edge in the other direction
createAndAddNode_reversed(data, sourceNodeIndex, pos) ==
    LET saved == saveUndoPoint(data)
        index == saved.graph.count
        added == addNode(saved.graph, pos)
    IN  [saved EXCEPT !.graph = IF hasNode(data.graph, sourceNodeIndex)
                                THEN addEdge(added, index, sourceNodeIndex)
                                ELSE added]

\* a variant that leaves the undo point to the caller
createAndAddNode_unsaved(data, sourceNodeIndex, pos) ==
    LET index == data.graph.count
        added == addNode(data.graph, pos)
    IN  [data EXCEPT !.graph = IF hasNode(data.graph, sourceNodeIndex)
                               THEN addEdge(added, sourceNodeIndex, index)
                               ELSE added]

\* Mediator::createAndAddNode
createAndAddNode(data, sourceNodeIndex, pos) ==
    LET saved == saveUndoPoint(data)
        index == saved.graph.count
        added == addNode(saved.graph, pos)
    IN  [saved EXCEPT !.graph = IF hasNode(data.graph, sourceNodeIndex)
                                THEN addEdge(added, sourceNodeIndex, index)
                                ELSE added]

\* the items of the graph: its nodes and its edges
GraphItem(kind, a, b) == [kind |-> kind, a |-> a, b |-> b]

ItemsOfGraph(graph) ==
    {GraphItem("node", index, -1) : index \in NodeIndexes(graph)}
        \cup {GraphItem("edge", edge[1], edge[2]) : edge \in graph.edges}

\* Mediator::removeItem
removeItem(data, item) ==
    LET saved == saveUndoPoint(data)
    IN  [saved EXCEPT !.graph = IF item.kind = "node"
                                THEN removeNode(@, item.a)
                                ELSE removeEdge(@, item.a, item.b)]

(***************************************************************************)
(* The document specification: a mind map, new or loaded, is edited.  Each *)
(* operation runs to its end and is recorded with what it was called with  *)
(* and the graph it left.                                                  *)
(***************************************************************************)
GraphOps == {"addEdge", "moveNode", "setNodeText", "setNodeColor"}

MediatorOps == {"createAndAddNode", "removeItem"}

\* The operation whose result is editorData' is recorded: its name and what
\* it was called with, and where it stands in a round trip.  A round trip
\* is a change of the graph (a graph operation right after saveUndoPoint,
\* or an operation of the Mediator), then undo, then redo; pre is the graph
\* before the change and post the graph after it.
recorded(op, args) ==
    LET changes == op \in MediatorOps \/ (op \in GraphOps /\ history.stage = "saved")
        stage == CASE op = "saveUndoPoint" -> "saved"
                   [] changes -> "changed"
                   [] op = "undo" /\ history.stage = "changed" -> "undone"
                   [] op = "redo" /\ history.stage = "undone" -> "redone"
                   [] OTHER -> "none"
        kept == stage \in {"undone", "redone"}
    IN  /\ history.count < MaxOps
        /\ history' =
               [count |-> history.count + 1, op |-> op, args |-> args,
                stage |-> stage,
                by |-> IF changes THEN op ELSE IF kept THEN history.by ELSE "none",
                bySave |-> IF changes THEN history.stage = "saved"
                           ELSE IF kept THEN history.bySave ELSE FALSE,
                pre |-> IF changes THEN editorData.graph
                        ELSE IF kept THEN history.pre ELSE EmptyGraph,
                post |-> IF changes THEN editorData'.graph
                         ELSE IF kept THEN history.post ELSE EmptyGraph]
        /\ UNCHANGED <<sceneVars, mainWindow, settings, selection, trace, app>>

LoadedGraphs ==
    {EmptyGraph,
     [nodes |-> {Node(0, <<0, 0>>, "text", "white")}, edges |-> {}, count |-> 1]}

InitDocument ==
    /\ sceneConstructed
    /\ applicationRunning
    /\ mainWindow = [undo |-> FALSE, redo |-> FALSE, save |-> FALSE, saveAs |-> FALSE,
                     spinner |-> FALSE]
    /\ settings = [recentPath |-> <<>>, recentImagePath |-> <<>>]
    /\ selection = [node |-> NoSelectionGroup, edge |-> NoSelectionGroup]
    /\ trace = <<>>
    /\ \E graph \in LoadedGraphs :
           /\ editorData = [graph |-> graph, undoStack |-> <<>>, redoStack |-> <<>>]
           /\ history = NoHistory

AddEdge ==
    \E source \in NodeRefs, target \in NodeRefs :
        /\ editorData' = [editorData EXCEPT !.graph = addEdge(@, source, target)]
        /\ recorded("addEdge", NoArgs)

\* a node is dragged to another position
MoveNode ==
    \E node \in editorData.graph.nodes : \E pos \in Positions \ {node.pos} :
        /\ editorData' = [editorData EXCEPT !.graph = moveNode(@, node.index, pos)]
        /\ recorded("moveNode", NoArgs)

\* a node's text is edited
ChangeText ==
    \E node \in editorData.graph.nodes : \E text \in Texts \ {node.text} :
        /\ editorData' = [editorData EXCEPT !.graph = setNodeText(@, node.index, text)]
        /\ recorded("setNodeText", NoArgs)

\* a node gets another colour
ChangeColor ==
    \E node \in editorData.graph.nodes : \E color \in NodeColors \ {node.color} :
        /\ editorData' = [editorData EXCEPT !.graph = setNodeColor(@, node.index, color)]
        /\ recorded("setNodeColor", NoArgs)

SaveUndoPoint ==
    /\ editorData' = saveUndoPoint(editorData)
    /\ recorded("saveUndoPoint", NoArgs)

Undo ==
    /\ isUndoable(editorData)
    /\ editorData' = undo(editorData)
    /\ recorded("undo", NoArgs)

Redo ==
    /\ isRedoable(editorData)
    /\ editorData' = redo(editorData)
    /\ recorded("redo", NoArgs)

CreateAndAddNode ==
    \E sourceNodeIndex \in NodeRefs, pos \in Positions :
        /\ editorData.graph.count < MaxNodes
        /\ editorData' = createAndAddNode(editorData, sourceNodeIndex, pos)
        /\ recorded("createAndAddNode", Args(sourceNodeIndex, -1, pos, ""))

RemoveGraphItem ==
    \E item \in ItemsOfGraph(editorData.graph) :
        /\ editorData' = removeItem(editorData, item)
        /\ recorded("removeItem", Args(item.a, item.b, <<0, 0>>, item.kind))

NextDocument ==
    \/ AddEdge
    \/ MoveNode
    \/ ChangeText
    \/ ChangeColor
    \/ SaveUndoPoint
    \/ Undo
    \/ Redo
    \/ CreateAndAddNode
    \/ RemoveGraphItem

SpecDocument == InitDocument /\ [][NextDocument]_vars

(***************************************************************************)
(* Claims about the document, its history and the Mediator.                *)
(***************************************************************************)
\* C13: saveUndoPoint(), then a structural operation (a node added, an edge
\* added, an item removed, a node moved, a text or a colour changed), then
\* undo() gives exactly the graph before the operation: the same nodes with
\* the same positions, texts and colours and the same edges; a redo() after
\* that gives exactly the graph the operation produced.
C13_UndoRedoRoundTrip ==
    /\ (history.bySave /\ history.stage = "undone") => editorData.graph = history.pre
    /\ (history.bySave /\ history.stage = "redone") => editorData.graph = history.post

C13_Witness ==
    /\ history.bySave
    /\ history.stage = "redone"
    /\ history.by = "moveNode"
    /\ Node(0, <<0, 0>>, "text", "white") \in history.pre.nodes
    /\ Node(0, <<50, 50>>, "text", "white") \in editorData.graph.nodes

\* C14: isUndoable() tells whether the undo stack holds a point and
\* isRedoable() whether the redo stack does; right after saveUndoPoint()
\* isRedoable() is false, right after undo() isRedoable() is true and right
\* after redo() isUndoable() is true.
C14_UndoableRedoable ==
    /\ isUndoable(editorData) <=> Len(editorData.undoStack) > 0
    /\ isRedoable(editorData) <=> Len(editorData.redoStack) > 0
    /\ history.op = "saveUndoPoint" => ~isRedoable(editorData)
    /\ history.op = "undo" => isRedoable(editorData)
    /\ history.op = "redo" => isUndoable(editorData)

C14_Witness ==
    /\ history.op = "undo"
    /\ isUndoable(editorData)
    /\ isRedoable(editorData)

\* the ends of every edge are nodes of the graph
EdgesReferToNodes(graph) ==
    \A edge \in graph.edges : hasNode(graph, edge[1]) /\ hasNode(graph, edge[2])

\* C15: whatever nodes and edges were added and removed and whatever was
\* undone and redone, the source and the target of every edge are nodes of
\* the graph; after a node is removed no edge from or to it is left.
C15_EdgesReferToNodes ==
    /\ EdgesReferToNodes(editorData.graph)
    /\ (history.op = "removeItem" /\ history.args.str = "node") =>
           /\ ~hasNode(editorData.graph, history.args.a)
           /\ \A edge \in editorData.graph.edges :
                  edge[1] # history.args.a /\ edge[2] # history.args.a

C15_Witness ==
    /\ history.op = "removeItem"
    /\ history.args.str = "node"
    /\ \E edge \in history.pre.edges : edge[1] = history.args.a
    /\ \E edge \in history.pre.edges : edge[2] = history.args.a
    /\ editorData.graph.nodes # {}

\* C16: createAndAddNode(sourceNodeIndex, position) adds exactly one node,
\* at the position, with an index no node had; it adds exactly one edge,
\* from the source node to the new node, when sourceNodeIndex is the index
\* of a node, and no edge when it is not; the nodes and edges there were
\* stay.
C16_CreateAndAddNode ==
    history.op = "createAndAddNode" =>
        LET before == history.pre
            after == editorData.graph
            created == after.nodes \ before.nodes
            source == history.args.a
        IN  /\ before.nodes \subseteq after.nodes
            /\ before.edges \subseteq after.edges
            /\ Cardinality(created) = 1
            /\ \A n \in created :
                   /\ n.index \notin NodeIndexes(before)
                   /\ n.pos = history.args.pos
                   /\ after.edges \ before.edges =
                          IF hasNode(before, source) THEN {<<source, n.index>>} ELSE {}
            /\ Cardinality(NodeIndexes(after)) = Cardinality(after.nodes)

C16_Witness ==
    /\ history.op = "createAndAddNode"
    /\ history.args.a = 0
    /\ editorData.graph.edges = {<<0, 1>>}
    /\ history.pre.edges = {}

C18_HasEdgeDirected ==
    /\ \A a \in NodeIndices, b \in NodeIndices :
           /\ (a # b /\ EdgeInScene(a, b) /\ ~EdgeInScene(b, a)) =>
                  (hasEdge(a, b) /\ ~hasEdge(b, a))
           /\ (hasEdge(a, b) \/ hasEdge(b, a)) <=> (EdgeInScene(a, b) \/ EdgeInScene(b, a))
    /\ (sceneAlive /\ ret.op = "hasEdge" /\ ~EdgeInScene(ret.args[1], ret.args[2])) =>
           ret.val = FALSE

C18_Witness ==
    /\ sceneAlive
    /\ ret.op = "hasEdge"
    /\ ret.val = FALSE
    /\ ret.args[1] # ret.args[2]
    /\ EdgeInScene(ret.args[2], ret.args[1])

\* C19: when toSvg() returns, the graphics effect of every scene item is
\* enabled or disabled as it was when the call was entered.
C19_EffectsAsBefore ==
    SvgReturned =>
        \A id \in Range(sceneItems) : heap[id].effect = ret.args[1][id].effect

\* where a call is in a handler's trace, 0 when it is not there
CallIndex(t, ev, arg) ==
    IF \E i \in 1..Len(t) : t[i].ev = ev /\ t[i].arg = arg
    THEN CHOOSE i \in 1..Len(t) :
             /\ t[i].ev = ev /\ t[i].arg = arg
             /\ \A j \in 1..(i - 1) : ~(t[j].ev = ev /\ t[j].arg = arg)
    ELSE 0

EventIndex(t, ev) ==
    IF \E i \in 1..Len(t) : t[i].ev = ev
    THEN CHOOSE i \in 1..Len(t) : t[i].ev = ev /\ \A j \in 1..(i - 1) : t[j].ev # ev
    ELSE 0

\* C20: doOpenMindMap shows the spinner before it attempts the open and
\* hides it after the attempt and before it emits, whether the open
\* succeeded or not; after a successful open it disables undo and redo,
\* sets the save-action states and stores the file name as the recent path,
\* all before it emits MindMapOpened; so at the moment MindMapOpened is
\* emitted undo and redo are disabled and the spinner is hidden, and at the
\* moment OpeningMindMapFailed is emitted the spinner is hidden.
C20_OpenedAfterWindowUpdated ==
    /\ [](OpenAttempted(trace) =>
            LET shown == CallIndex(trace, "showSpinnerDialog", TRUE)
                hidden == CallIndex(trace, "showSpinnerDialog", FALSE)
                attempt == EventIndex(trace, "service.openMindMap")
                emitted == EventIndex(trace, "emit")
                between(i) == attempt < i /\ i < emitted
            IN  /\ 0 < shown /\ shown < attempt
                /\ between(hidden)
                /\ OpenSucceeded(trace) =>
                       /\ between(EventIndex(trace, "disableUndoAndRedo"))
                       /\ between(EventIndex(trace, "setSaveActionStatesOnOpenedMindMap"))
                       /\ between(CallIndex(trace, "saveRecentPath", trace[attempt].arg[1])))
    /\ [][OpenAttempted(trace') =>
            LET emitted == EventIndex(trace', "emit")
                st == effects([mainWindow |-> mainWindow, settings |-> settings,
                               selection |-> selection],
                              SubSeq(trace', 1, emitted - 1), 1)
            IN  /\ emitted > 0
                /\ ~st.mainWindow.spinner
                /\ OpenSucceeded(trace') =>
                       /\ ~st.mainWindow.undo
                       /\ ~st.mainWindow.redo
                       /\ ~st.mainWindow.save
                       /\ st.mainWindow.saveAs
                       /\ st.settings.recentPath =
                              trace'[EventIndex(trace', "service.openMindMap")].arg[1]]_vars

C20_Witness ==
    /\ OpenAttempted(trace)
    /\ OpenSucceeded(trace)
    /\ StateRun(trace) = "ShowOpenDialog"
    /\ Emitted(trace) = <<"MindMapOpened">>
    /\ settings.recentPath # <<>>
    /\ ~mainWindow.spinner /\ ~mainWindow.undo /\ ~mainWindow.redo

(***************************************************************************)
(* Claims about saving and about the cancelled file dialogs.               *)
(***************************************************************************)
\* the handler that ran last called the service's saveMindMap
SaveAttempted(t) == CallsOf(t, "service.saveMindMap") # <<>>

SaveSucceeded(t) == CallsOf(t, "service.saveMindMap")[1].arg

\* C21: a call of saveMindMap() asks the service once and emits exactly one
\* action, MindMapSaved if the service's saveMindMap returned true and
\* MindMapSaveFailed if not; it calls enableSave(false), once, on success
\* only, so after a failure the save action is enabled as it was, and so
\* are the other actions of the main window.
C21_SaveEmitsOnce ==
    /\ [](SaveAttempted(trace) =>
            /\ Len(CallsOf(trace, "service.saveMindMap")) = 1
            /\ Emitted(trace) = IF SaveSucceeded(trace) THEN <<"MindMapSaved">>
                                ELSE <<"MindMapSaveFailed">>
            /\ CallsOf(trace, "enableSave") =
                   IF SaveSucceeded(trace) THEN <<Call("enableSave", FALSE)>> ELSE <<>>)
    /\ [][SaveAttempted(trace') =>
            IF SaveSucceeded(trace')
            THEN mainWindow' = [mainWindow EXCEPT !.save = FALSE]
            ELSE mainWindow' = mainWindow]_vars

C21_Witness ==
    /\ SaveAttempted(trace)
    /\ ~SaveSucceeded(trace)
    /\ mainWindow.save
    /\ Emitted(trace) = <<"MindMapSaveFailed">>

\* the file dialog a handler showed returned an empty file name
OpenDialogCancelled(t) ==
    /\ StateRun(t) = "ShowOpenDialog"
    /\ CallsOf(t, "getOpenFileName") # <<>>
    /\ CallsOf(t, "getOpenFileName")[1].arg = <<>>

SaveAsDialogCancelled(t) ==
    /\ StateRun(t) = "ShowSaveAsDialog"
    /\ CallsOf(t, "getSaveFileName") # <<>>
    /\ CallsOf(t, "getSaveFileName")[1].arg = <<>>

\* the calls of a handler that change something or tell somebody: all but
\* the state it was run for, the read of the recent path and the dialog
ActingCalls(t) ==
    SelectSeq(t, LAMBDA c : c.ev \notin {"runState", "loadRecentPath",
                                          "getOpenFileName", "getSaveFileName"})

\* C22: when the open dialog or the save-as dialog returns an empty file
\* name, the handler does one thing: it emits OpeningMindMapCanceled or
\* MindMapSaveAsCanceled, once.  It calls no open or save of the service,
\* emits nothing else, and leaves the stored recent path and the main
\* window's actions, the save action among them, as they were.
C22_CancelOnlyEmits ==
    /\ [](OpenDialogCancelled(trace) =>
            ActingCalls(trace) = <<Emit("OpeningMindMapCanceled")>>)
    /\ [](SaveAsDialogCancelled(trace) =>
            ActingCalls(trace) = <<Emit("MindMapSaveAsCanceled")>>)
    /\ [][(OpenDialogCancelled(trace') \/ SaveAsDialogCancelled(trace')) =>
            /\ settings' = settings
            /\ mainWindow' = mainWindow]_vars

C22_Witness ==
    /\ SaveAsDialogCancelled(trace)
    /\ settings.recentPath # <<>>
    /\ mainWindow.saveAs
    /\ Emitted(trace) = <<"MindMapSaveAsCanceled">>

\* a name ends with the file extension: it is some name followed by it
HasExtension(name) ==
    \E k \in 0..Len(name) : name = SubSeq(name, 1, k) \o fileExtension

SaveAsAttempted(t) ==
    /\ CallsOf(t, "getSaveFileName") # <<>>
    /\ CallsOf(t, "getSaveFileName")[1].arg # <<>>

\* C23: for a non-empty file name chosen in the save-as dialog the service's
\* saveMindMapAs is called once, with a name that ends with the file
\* extension: the chosen name itself when that ends with the extension, the
\* chosen name followed by the extension when it does not.  Exactly one of
\* MindMapSavedAs and MindMapSaveAsFailed is emitted, MindMapSavedAs when
\* the service returned true; the recent path becomes the name passed to
\* the service when the save succeeded and stays as it was when it failed.
C23_SaveAsExtension ==
    /\ [](SaveAsAttempted(trace) =>
            LET chosen == CallsOf(trace, "getSaveFileName")[1].arg
                calls == CallsOf(trace, "service.saveMindMapAs")
            IN  /\ Len(calls) = 1
                /\ HasExtension(calls[1].arg[1])
                /\ calls[1].arg[1] = IF HasExtension(chosen) THEN chosen
                                     ELSE chosen \o fileExtension
                /\ Emitted(trace) = IF calls[1].arg[2] THEN <<"MindMapSavedAs">>
                                    ELSE <<"MindMapSaveAsFailed">>
                /\ CallsOf(trace, "saveRecentPath") =
                       IF calls[1].arg[2]
                       THEN <<Call("saveRecentPath", calls[1].arg[1])>>
                       ELSE <<>>)
    /\ [][SaveAsAttempted(trace') =>
            LET call == CallsOf(trace', "service.saveMindMapAs")[1]
            IN  settings'.recentPath = IF call.arg[2] THEN call.arg[1]
                                       ELSE settings.recentPath]_vars

C23_Witness ==
    /\ SaveAsAttempted(trace)
    /\ CallsOf(trace, "getSaveFileName")[1].arg = fileExtension
    /\ settings.recentPath = fileExtension
    /\ Emitted(trace) = <<"MindMapSavedAs">>

(***************************************************************************)
(* Start-up: the constructor of Application, step by step, then run(),     *)
(* which enters the event loop; a zero-delay single-shot timer set in the  *)
(* constructor fires from the event loop.                                  *)
(***************************************************************************)
MaxArgs == 2

\* the positional arguments of a command line
PositionalArgs ==
    UNION {[1..n -> OpenNames] : n \in 0..MaxArgs}

\* the positional argument callback of Application::parseArgs
parseArgs(a, args) ==
    [a EXCEPT !.positional = args,
              !.mindMapFile = IF args # <<>> THEN args[1] ELSE @]

\* QTimer::singleShot(0, this, slot)
singleShot(a, slot) == [a EXCEPT !.timers = Append(@, slot)]

\* a variant that looks at the autoload setting before the command line
openGivenMindMapOrAutoloadRecentMindMap_autoloadFirst(a) ==
    IF a.autoload /\ a.recentFile.has_value
    THEN singleShot([a EXCEPT !.mindMapFile = a.recentFile.value], "openArgMindMap")
    ELSE IF a.mindMapFile # <<>>
         THEN singleShot(a, "openArgMindMap")
         ELSE a

openGivenMindMapOrAutoloadRecentMindMap(a) ==
    IF a.mindMapFile # <<>>
    THEN singleShot(a, "openArgMindMap")
    ELSE IF a.autoload
         THEN IF a.recentFile.has_value
              THEN singleShot([a EXCEPT !.mindMapFile = a.recentFile.value],
                              "openArgMindMap")
              ELSE a
         ELSE a

\* The statements of the constructor's body, in order; pc names the
\* statement the constructor is at.
Application_parseArgs ==
    \E args \in PositionalArgs :
        /\ app.pc = "parseArgs"
        /\ app' = [parseArgs(app, args) EXCEPT !.pc = "initializeTranslations"]
        /\ UNCHANGED <<sceneVars, mainWindow, settings, selection, trace, editVars>>

Application_initializeTranslations ==
    /\ app.pc = "initializeTranslations"
    /\ app' = [app EXCEPT !.pc = "instantiateAndConnectComponents"]
    /\ UNCHANGED <<sceneVars, mainWindow, settings, selection, trace, editVars>>

\* connectComponents connects the actions to the state machine and the
\* state machine to runState
Application_instantiateAndConnectComponents ==
    /\ app.pc = "instantiateAndConnectComponents"
    /\ app' = [app EXCEPT !.connected = TRUE, !.pc = "initializeAndShowMainWindow"]
    /\ UNCHANGED <<sceneVars, mainWindow, settings, selection, trace, editVars>>

\* m_mainWindow->initialize(); m_mainWindow->appear()
Application_initializeAndShowMainWindow ==
    /\ app.pc = "initializeAndShowMainWindow"
    /\ app' = [app EXCEPT !.shown = TRUE,
                          !.pc = "openGivenMindMapOrAutoloadRecentMindMap"]
    /\ UNCHANGED <<sceneVars, mainWindow, settings, selection, trace, editVars>>

Application_openGivenMindMapOrAutoloadRecentMindMap ==
    /\ app.pc = "openGivenMindMapOrAutoloadRecentMindMap"
    /\ app' = [openGivenMindMapOrAutoloadRecentMindMap(app)
                   EXCEPT !.pc = "checkForNewReleases"]
    /\ UNCHANGED <<sceneVars, mainWindow, settings, selection, trace, editVars>>

Application_checkForNewReleases ==
    /\ app.pc = "checkForNewReleases"
    /\ app' = [app EXCEPT !.pc = "constructed"]
    /\ UNCHANGED <<sceneVars, mainWindow, settings, selection, trace, editVars>>

\* Application::run: m_application.exec() enters the event loop
run ==
    /\ app.pc = "constructed"
    /\ app' = [app EXCEPT !.pc = "running"]
    /\ UNCHANGED <<sceneVars, mainWindow, settings, selection, trace, editVars>>

\* the event loop delivers the oldest pending single-shot timer to its slot,
\* openArgMindMap
timeout_openArgMindMap ==
    \E opened \in BOOLEAN :
        /\ app.pc = "running"
        /\ app.timers # <<>>
        /\ Head(app.timers) = "openArgMindMap"
        /\ trace' = openArgMindMap(app.mindMapFile, opened)
        /\ LET st == effects([mainWindow |-> mainWindow, settings |-> settings,
                              selection |-> selection], trace', 1)
           IN  /\ mainWindow' = st.mainWindow
               /\ settings' = st.settings
               /\ selection' = st.selection
        /\ app' = [app EXCEPT !.timers = Tail(@), !.opens = @ + 1]
        /\ UNCHANGED <<sceneVars, editVars>>

\* the recent file the RecentFilesManager holds, if any
RecentFiles ==
    {NoRecentFile} \cup {[has_value |-> TRUE, value |-> name] : name \in OpenNames \ {<<>>}}

InitStartup ==
    /\ sceneConstructed
    /\ editorAtRest
    /\ mainWindow = [undo |-> FALSE, redo |-> FALSE, save |-> FALSE, saveAs |-> FALSE,
                     spinner |-> FALSE]
    /\ settings = [recentPath |-> <<>>, recentImagePath |-> <<>>]
    /\ selection = [node |-> NoSelectionGroup, edge |-> NoSelectionGroup]
    /\ trace = <<>>
    /\ \E autoload \in BOOLEAN, recentFile \in RecentFiles :
           app = [pc |-> "parseArgs", positional |-> <<>>, mindMapFile |-> <<>>,
                  autoload |-> autoload, recentFile |-> recentFile, timers |-> <<>>,
                  connected |-> FALSE, shown |-> FALSE, opens |-> 0]

NextStartup ==
    \/ Application_parseArgs
    \/ Application_initializeTranslations
    \/ Application_instantiateAndConnectComponents
    \/ Application_initializeAndShowMainWindow
    \/ Application_openGivenMindMapOrAutoloadRecentMindMap
    \/ Application_checkForNewReleases
    \/ run
    \/ timeout_openArgMindMap

SpecStartup == InitStartup /\ [][NextStartup]_vars

(***************************************************************************)
(* Claims about start-up.                                                  *)
(***************************************************************************)
\* a mind-map file was given on the command line: the first positional
\* argument, and it names something
FileGiven == app.positional # <<>> /\ app.positional[1] # <<>>

\* the mind-map opens scheduled or done so far
StartupOpens == Len(app.timers) + app.opens

\* the constructor is past openGivenMindMapOrAutoloadRecentMindMap
StartupDecided ==
    app.pc \in {"checkForNewReleases", "constructed", "running"}

\* C24: at start-up at most one open of a mind map is scheduled.  With a
\* file given on the command line exactly one is, and it opens that file,
\* whatever the autoload setting; with none given, one is scheduled exactly
\* when autoload is on and a recent file exists, and it opens the recent
\* file.  The open is done by a zero-delay timer and runs in the event
\* loop only: after the constructor has returned, with the components
\* connected and the main window shown.
C24_StartupOpen ==
    /\ [](StartupOpens <= 1)
    /\ [](StartupDecided =>
            (StartupOpens = 1 <=>
                (FileGiven \/ (app.autoload /\ app.recentFile.has_value))))
    /\ [](~StartupDecided => StartupOpens = 0)
    /\ [][app'.opens # app.opens =>
            /\ app.pc = "running"
            /\ app.connected
            /\ app.shown
            /\ OpenAttempted(trace')
            /\ CallsOf(trace', "service.openMindMap")[1].arg[1] =
                   IF FileGiven THEN app.positional[1] ELSE app.recentFile.value]_vars

C24_Witness ==
    /\ app.opens = 1
    /\ FileGiven
    /\ app.autoload
    /\ app.recentFile.has_value
    /\ app.recentFile.value # app.positional[1]
    /\ OpenAttempted(trace)
    /\ CallsOf(trace, "service.openMindMap")[1].arg[1] = app.positional[1]

====
